---------------------------- MODULE Spec2Model ----------------------------
(***************************************************************************)
(* A model of factorio_quicklaunch.py: the configuration store, the        *)
(* credential store adapter, the save finder, the path guesser and the     *)
(* handlers of the main window (server operations and launch operations).  *)
(*                                                                         *)
(* Strings are TLC strings; Len, SubSeq and \o act on them as on sequences  *)
(* of characters.  A text file is the sequence of JSON tokens it holds     *)
(* together with the indentation it is laid out with.  A Python dict is a  *)
(* record; the order of its keys in a dump is the order in which the       *)
(* program inserts them (KeyOrder).                                        *)
(***************************************************************************)
EXTENDS Integers, Sequences, FiniteSets, TLC

VARIABLES
    file,     \* content of CONFIG_FILE: NoFile, or a text [indent, toks]
    cfg,      \* MainWindow.cfg / the value load_config returned; NoCfg before
    cred,     \* the keyring: server name -> secret, or NoSecret
    fs,       \* the file system: path -> "absent" | "exec" | "file" | "dir"
    listing,  \* children of the existing saves directory, in iterdir() order
    last      \* the last operation: its name, inputs and outcome

vars == <<file, cfg, cred, fs, listing, last>>

-----------------------------------------------------------------------------
(* Bounds of the model *)

MaxServers == 2
MaxFiles == 2
MaxTime == 2

-----------------------------------------------------------------------------
(* Python values *)

None == "<None>"
NoFile == [exists |-> FALSE]
NoCfg == [loaded |-> FALSE]
NoSecret == None

\* str.strip(): leading and trailing blanks removed
RECURSIVE lstrip(_)
lstrip(s) ==
    IF Len(s) > 0 /\ SubSeq(s, 1, 1) = " " THEN lstrip(SubSeq(s, 2, Len(s))) ELSE s

RECURSIVE rstrip(_)
rstrip(s) ==
    IF Len(s) > 0 /\ SubSeq(s, Len(s), Len(s)) = " "
    THEN rstrip(SubSeq(s, 1, Len(s) - 1)) ELSE s

strip(s) == rstrip(lstrip(s))

Upper == "ABCDEFGHIJKLMNOPQRSTUVWXYZ"
Lower == "abcdefghijklmnopqrstuvwxyz"

lowerChar(c) ==
    IF \E i \in 1..Len(Upper) : SubSeq(Upper, i, i) = c
    THEN LET i == CHOOSE j \in 1..Len(Upper) : SubSeq(Upper, j, j) = c
         IN  SubSeq(Lower, i, i)
    ELSE c

\* str.lower()
RECURSIVE lower(_)
lower(s) ==
    IF Len(s) = 0 THEN s
    ELSE lowerChar(SubSeq(s, 1, 1)) \o lower(SubSeq(s, 2, Len(s)))

\* str.rfind("."): the last index of a dot, 0 when there is none (1-based)
rfindDot(s) ==
    LET dots == {i \in 1..Len(s) : SubSeq(s, i, i) = "."}
    IN  IF dots = {} THEN 0 ELSE CHOOSE i \in dots : \A j \in dots : j <= i

\* PurePath.suffix of a file name: from the last dot on, unless that dot is the
\* first or the last character
suffix(name) ==
    LET i == rfindDot(name)
    IN  IF 1 < i /\ i < Len(name) THEN SubSeq(name, i, Len(name)) ELSE ""

-----------------------------------------------------------------------------
(* json.dumps / json.loads on token sequences *)

JsonIndent == 2

P(c) == [t |-> "punct", v |-> c]
S(s) == [t |-> "str", v |-> s]
N(n) == [t |-> "num", v |-> n]

\* Insertion order of the keys of the dicts the program builds
KeyOrder == <<"factorio_path", "saves_dir", "servers",
              "name", "host", "port", "user", "password">>

\* The Python type of the value the program stores under each key
TypeOf(key) ==
    IF key = "servers" THEN "list" ELSE IF key = "port" THEN "int" ELSE "str"

RECURSIVE dumpValue(_, _)
RECURSIVE dumpMembers(_, _, _)
RECURSIVE dumpElems(_, _)

\* a dict's members, keys k..Len(KeyOrder) of KeyOrder, `first` until one is out
dumpMembers(d, k, first) ==
    IF k > Len(KeyOrder) THEN <<>>
    ELSE IF KeyOrder[k] \in DOMAIN d
         THEN (IF first THEN <<>> ELSE <<P(",")>>)
              \o <<S(KeyOrder[k]), P(":")>> \o dumpValue(d[KeyOrder[k]], TypeOf(KeyOrder[k]))
              \o dumpMembers(d, k + 1, FALSE)
         ELSE dumpMembers(d, k + 1, first)

dumpElems(l, i) ==
    IF i > Len(l) THEN <<>>
    ELSE (IF i = 1 THEN <<>> ELSE <<P(",")>>)
         \o dumpValue(l[i], "dict") \o dumpElems(l, i + 1)

\* the encoder's dispatch on the Python type of the value
dumpValue(v, type) ==
    IF type = "str" THEN <<S(v)>>
    ELSE IF type = "int" THEN <<N(v)>>
    ELSE IF type = "dict" THEN <<P("{")>> \o dumpMembers(v, 1, TRUE) \o <<P("}")>>
    ELSE <<P("[")>> \o dumpElems(v, 1) \o <<P("]")>>

dumps(obj, indent) == [indent |-> indent, toks |-> dumpValue(obj, "dict")]

ParseFail == [ok |-> FALSE, val |-> None, next |-> 0]

RECURSIVE parseValue(_, _)
RECURSIVE parseMembers(_, _, _)
RECURSIVE parseElems(_, _, _)

\* the dict of a sequence of <<key, value>> pairs; a repeated key keeps its last value
dictOf(pairs) ==
    [k \in {pairs[j][1] : j \in DOMAIN pairs} |->
        pairs[CHOOSE j \in DOMAIN pairs :
                 /\ pairs[j][1] = k
                 /\ \A j2 \in DOMAIN pairs : pairs[j2][1] = k => j2 <= j][2]]

parseMembers(toks, i, acc) ==
    IF i + 1 > Len(toks) \/ toks[i].t # "str" \/ toks[i + 1] # P(":") THEN ParseFail
    ELSE LET r == parseValue(toks, i + 2)
         IN  IF ~r.ok \/ r.next > Len(toks) THEN ParseFail
             ELSE LET acc2 == Append(acc, <<toks[i].v, r.val>>)
                  IN  IF toks[r.next] = P(",") THEN parseMembers(toks, r.next + 1, acc2)
                      ELSE IF toks[r.next] = P("}")
                           THEN [ok |-> TRUE, val |-> dictOf(acc2), next |-> r.next + 1]
                           ELSE ParseFail

parseElems(toks, i, acc) ==
    LET r == parseValue(toks, i)
    IN  IF ~r.ok \/ r.next > Len(toks) THEN ParseFail
        ELSE LET acc2 == Append(acc, r.val)
             IN  IF toks[r.next] = P(",") THEN parseElems(toks, r.next + 1, acc2)
                 ELSE IF toks[r.next] = P("]")
                      THEN [ok |-> TRUE, val |-> acc2, next |-> r.next + 1]
                      ELSE ParseFail

parseValue(toks, i) ==
    IF i > Len(toks) THEN ParseFail
    ELSE IF toks[i].t \in {"str", "num"} THEN [ok |-> TRUE, val |-> toks[i].v, next |-> i + 1]
    ELSE IF toks[i] = P("{")
         THEN IF i + 1 <= Len(toks) /\ toks[i + 1] = P("}")
              THEN [ok |-> TRUE, val |-> <<>>, next |-> i + 2]
              ELSE parseMembers(toks, i + 1, <<>>)
    ELSE IF toks[i] = P("[")
         THEN IF i + 1 <= Len(toks) /\ toks[i + 1] = P("]")
              THEN [ok |-> TRUE, val |-> <<>>, next |-> i + 2]
              ELSE parseElems(toks, i + 1, <<>>)
    ELSE ParseFail

\* json.loads: the value, or a raised JSONDecodeError (ok = FALSE)
loads(text) ==
    LET r == parseValue(text.toks, 1)
    IN  IF r.ok /\ r.next = Len(text.toks) + 1 THEN r ELSE ParseFail

-----------------------------------------------------------------------------
(* Config store *)

DefaultConfig == [factorio_path |-> "", saves_dir |-> "", servers |-> <<>>]

\* ensure_config_path() with the existence test lost: the default is always written
ensure_config_path_overwrites(f) == dumps(DefaultConfig, JsonIndent)

\* the file after ensure_config_path(): created with the default when absent
ensure_config_path(f) ==
    IF f = NoFile THEN dumps(DefaultConfig, JsonIndent) ELSE f

\* load_config() that repairs an unparsable file by writing the default over it
load_config_rewrites(f) ==
    LET f2 == ensure_config_path(f)
        r  == loads(f2)
    IN  [cfg |-> IF r.ok THEN r.val ELSE DefaultConfig,
         file |-> IF r.ok THEN f2 ELSE dumps(DefaultConfig, JsonIndent),
         raised |-> FALSE]

\* load_config(): the value returned and the file it leaves
load_config(f) ==
    LET f2 == ensure_config_path(f)
        r  == loads(f2)
    IN  [cfg |-> IF r.ok THEN r.val ELSE DefaultConfig, file |-> f2, raised |-> FALSE]

\* save_config(cfg) that writes the default document instead of cfg
save_config_default(f, c) == dumps(DefaultConfig, JsonIndent)

\* save_config(cfg): the file it leaves
save_config(f, c) ==
    LET f2 == ensure_config_path(f)
    IN  dumps(c, JsonIndent)

-----------------------------------------------------------------------------
(* File system *)

Home == "/home/u"

\* os.path.join(h, rel) for a relative rel
join(h, rel) == h \o "/" \o rel

\* Path(p) as the file system sees it: the empty path is the current directory
pathOf(p) == IF p = "" THEN "." ELSE p

kindOf(world, p) == IF pathOf(p) \in DOMAIN world THEN world[pathOf(p)] ELSE "absent"

\* Path(p).exists()
exists(world, p) == kindOf(world, p) # "absent"

\* Path(p).is_dir() / os.path.isdir(p)
is_dir(world, p) == kindOf(world, p) = "dir"

\* os.path.isfile(p) and os.access(p, os.X_OK)
is_executable_file(world, p) == kindOf(world, p) = "exec"

ExeCandidates ==
    << "/usr/bin/factorio",
       "/usr/local/bin/factorio",
       join(Home, ".local/share/Steam/steamapps/common/Factorio/bin/x64/factorio"),
       join(Home, ".factorio/bin/x64/factorio") >>

SavesCandidates ==
    << join(Home, ".factorio/saves"),
       join(Home, ".local/share/Factorio/saves") >>

\* the first candidate from index i on that is an executable file, or ""
RECURSIVE firstExecutable(_, _)
firstExecutable(world, i) ==
    IF i > Len(ExeCandidates) THEN ""
    ELSE IF is_executable_file(world, ExeCandidates[i]) THEN ExeCandidates[i]
    ELSE firstExecutable(world, i + 1)

\* the first saves candidate from index i on that is a directory, or the fallback
RECURSIVE firstSavesDir(_, _)
firstSavesDir(world, i) ==
    IF i > Len(SavesCandidates) THEN join(Home, ".factorio/saves")
    ELSE IF is_dir(world, SavesCandidates[i]) THEN SavesCandidates[i]
    ELSE firstSavesDir(world, i + 1)

guess_default_paths(world) ==
    [factorio_path |-> firstExecutable(world, 1), saves_dir |-> firstSavesDir(world, 1)]

\* subprocess.Popen(args): "" when the child is spawned, else the OSError raised
Popen(world, args) ==
    LET k == IF args[1] = "" THEN "dir" ELSE kindOf(world, args[1])
    IN  IF k = "exec" THEN ""
        ELSE IF k = "absent" THEN "FileNotFoundError"
        ELSE "PermissionError"

-----------------------------------------------------------------------------
(* Save finder *)

SaveExts == {".zip", ".save", ".dat", ".autosave", ".quicksave"}

\* p.iterdir(): the children of a directory, in the order the OS yields them;
\* the saves candidates share the listing, every other directory is empty
iterdir(world, ls, p) ==
    IF \E i \in DOMAIN SavesCandidates : SavesCandidates[i] = p THEN ls ELSE <<>>

\* the loop of find_latest_save from child i on, with the running maximum
RECURSIVE scan(_, _, _, _, _)
scan(dir, ls, i, latest, latest_time) ==
    IF i > Len(ls) THEN latest
    ELSE LET f == ls[i]
         IN  IF f.kind = "file" /\ lower(suffix(f.name)) \in SaveExts /\ f.mtime > latest_time
             THEN scan(dir, ls, i + 1, join(dir, f.name), f.mtime)
             ELSE scan(dir, ls, i + 1, latest, latest_time)

find_latest_save(world, ls, saves_dir) ==
    IF saves_dir = "" THEN None
    ELSE IF ~exists(world, saves_dir) \/ ~is_dir(world, saves_dir) THEN None
    ELSE scan(saves_dir, iterdir(world, ls, saves_dir), 1, None, 0)

-----------------------------------------------------------------------------
(* Credential store adapter *)

APP_NAME == "FactorioLauncher"
SERVICE_PREFIX == APP_NAME \o ".server"

serviceOf(name) == SERVICE_PREFIX \o ":" \o name

\* store_server_password with the server name left out of the service key
store_under_prefix(c, name, password) ==
    [k \in DOMAIN c \cup {SERVICE_PREFIX} |->
        IF k = SERVICE_PREFIX THEN password ELSE c[k]]

\* keyring.set_password(service, "password", password)
store_server_password(c, name, password) ==
    [k \in DOMAIN c \cup {serviceOf(name)} |->
        IF k = serviceOf(name) THEN password ELSE c[k]]

\* keyring.get_password(service, "password"): None when nothing is stored
get_server_password(c, name) ==
    IF serviceOf(name) \in DOMAIN c THEN c[serviceOf(name)] ELSE None

\* keyring.delete_password(service, "password"); a missing secret raises
\* PasswordDeleteError, which is swallowed
delete_server_password(c, name) ==
    [k \in DOMAIN c \ {serviceOf(name)} |-> c[k]]

-----------------------------------------------------------------------------
(* Inputs *)

PortMin == 1
PortMax == 65535

\* the names typed into the dialog of add_server
TypedNames == {"", "A", " B "}
\* the names typed into the dialog of edit_server
TypedNewNames == {"A", " B "}
TypedHosts == {" h "}
TypedUsers == {"u"}
TypedPorts == {PortMax}
TypedPasswords == {"", "p"}
TypedExePaths == {"", " /usr/bin/factorio "}
TypedSavesDirs == {""}

\* ServerDialog.get_data() for the text typed into the fields
get_data(name, host, port, user, password) ==
    [name |-> strip(name), host |-> strip(host), port |-> port,
     user |-> strip(user), password |-> password]

\* SettingsDialog.get_settings()
get_settings(exe, saves) ==
    [factorio_path |-> strip(exe), saves_dir |-> strip(saves)]

\* dict.update(): the keys of new overwrite or extend those of d
update(d, new) ==
    [k \in DOMAIN d \cup DOMAIN new |-> IF k \in DOMAIN new THEN new[k] ELSE d[k]]

\* Python truthiness of an Optional[str]
truthy(v) == v # None /\ v # ""

\* list.pop(row) for a 1-based row
pop(l, row) == SubSeq(l, 1, row - 1) \o SubSeq(l, row + 1, Len(l))

-----------------------------------------------------------------------------
(* The last operation *)

Idle ==
    [op |-> "none", accepted |-> FALSE, row |-> 0, name |-> "", pw |-> None,
     notice |-> "", escaped |-> "", popen |-> <<>>, spawned |-> FALSE,
     result |-> None, fileWas |-> "", arg |-> ""]

Op(name) == [Idle EXCEPT !.op = name]

stateOf(f) ==
    IF f = NoFile THEN "absent" ELSE IF loads(f).ok THEN "valid" ELSE "unparsable"

-----------------------------------------------------------------------------
(* MainWindow: each handler as the state it leaves, [cfg, cred, file, last] *)

\* MainWindow.__init__: load, fill the empty paths with the guesses, save
init_window(world, f) ==
    LET r  == load_config(f)
        g  == guess_default_paths(world)
        c1 == IF r.cfg.factorio_path = ""
              THEN [r.cfg EXCEPT !.factorio_path = g.factorio_path] ELSE r.cfg
        c2 == IF c1.saves_dir = "" THEN [c1 EXCEPT !.saves_dir = g.saves_dir] ELSE c1
    IN  [cfg |-> c2, file |-> save_config(r.file, c2),
         last |-> [Op("init") EXCEPT !.fileWas = stateOf(f)]]

open_settings(c, f, accepted, new) ==
    IF accepted
    THEN LET c2 == update(c, new)
         IN  [cfg |-> c2, file |-> save_config(f, c2),
              last |-> [Op("open_settings") EXCEPT !.accepted = TRUE,
                                                   !.notice = "Settings saved."]]
    ELSE [cfg |-> c, file |-> f, last |-> Op("open_settings")]

\* add_server that appends the dialog's data, password included, as the entry
add_server_keeps_password(c, k, f, accepted, d) ==
    IF ~accepted
    THEN [cfg |-> c, cred |-> k, file |-> f, last |-> Op("add_server")]
    ELSE IF d.name = ""
    THEN [cfg |-> c, cred |-> k, file |-> f,
          last |-> [Op("add_server") EXCEPT !.accepted = TRUE, !.pw = d.password,
                                            !.notice = "Server must have a name."]]
    ELSE LET c2 == [c EXCEPT !.servers = Append(c.servers, d)]
         IN  [cfg |-> c2, cred |-> store_server_password(k, d.name, d.password),
              file |-> save_config(f, c2),
              last |-> [Op("add_server") EXCEPT !.accepted = TRUE, !.name = d.name,
                                                !.pw = d.password,
                                                !.row = Len(c2.servers)]]

add_server(c, k, f, accepted, d) ==
    IF ~accepted
    THEN [cfg |-> c, cred |-> k, file |-> f, last |-> Op("add_server")]
    ELSE IF d.name = ""
    THEN [cfg |-> c, cred |-> k, file |-> f,
          last |-> [Op("add_server") EXCEPT !.accepted = TRUE, !.pw = d.password,
                                            !.notice = "Server must have a name."]]
    ELSE LET entry == [name |-> d.name, host |-> d.host, port |-> d.port, user |-> d.user]
             c2    == [c EXCEPT !.servers = Append(c.servers, entry)]
         IN  [cfg |-> c2, cred |-> store_server_password(k, d.name, d.password),
              file |-> save_config(f, c2),
              last |-> [Op("add_server") EXCEPT !.accepted = TRUE, !.name = d.name,
                                                !.pw = d.password,
                                                !.row = Len(c2.servers)]]

\* the text ServerDialog shows in its password field for server s
prefill(k, s) ==
    LET pw == get_server_password(k, s.name) IN IF truthy(pw) THEN pw ELSE ""

edit_server(c, k, f, row, accepted, d) ==
    IF row = 0
    THEN [cfg |-> c, cred |-> k, file |-> f,
          last |-> [Op("edit_server") EXCEPT !.notice = "Select a server to edit."]]
    ELSE IF ~accepted
    THEN [cfg |-> c, cred |-> k, file |-> f, last |-> [Op("edit_server") EXCEPT !.row = row]]
    ELSE LET s  == c.servers[row]
             k2 == IF d.password # "" THEN store_server_password(k, d.name, d.password)
                   ELSE k
             s2 == update(s, [name |-> d.name, host |-> d.host,
                              port |-> d.port, user |-> d.user])
             c2 == [c EXCEPT !.servers[row] = s2]
         IN  [cfg |-> c2, cred |-> k2, file |-> save_config(f, c2),
              last |-> [Op("edit_server") EXCEPT !.accepted = TRUE, !.row = row,
                                                 !.name = d.name, !.pw = d.password]]

remove_server(c, k, f, row) ==
    IF row = 0
    THEN [cfg |-> c, cred |-> k, file |-> f, last |-> Op("remove_server")]
    ELSE LET name == c.servers[row].name
             c2   == [c EXCEPT !.servers = pop(c.servers, row)]
         IN  [cfg |-> c2, cred |-> delete_server_password(k, name),
              file |-> save_config(f, c2),
              last |-> [Op("remove_server") EXCEPT !.row = row, !.name = name]]

\* the outcome of a Popen the handler does not guard: an OSError escapes it
unguarded(world, args, op, status) ==
    LET e == Popen(world, args)
    IN  IF e = ""
        THEN [Op(op) EXCEPT !.popen = args, !.spawned = TRUE, !.notice = status]
        ELSE [Op(op) EXCEPT !.popen = args, !.escaped = e]

launch_normal(world, c) ==
    LET factorio == c.factorio_path
    IN  IF ~exists(world, factorio)
        THEN [Op("launch_normal") EXCEPT !.notice = "Factorio executable not found."]
        ELSE unguarded(world, <<factorio>>, "launch_normal", "Launched Factorio.")

continue_latest_save(world, ls, c) ==
    LET factorio == c.factorio_path
        latest   == find_latest_save(world, ls, c.saves_dir)
    IN  IF ~truthy(latest)
        THEN [Op("continue_latest_save") EXCEPT !.notice = "No save found."]
        ELSE [unguarded(world, <<factorio, "--load-game", latest>>,
                        "continue_latest_save", "Launching latest save")
                 EXCEPT !.result = latest]

\* connect_to_server that puts the password pair before --mp-connect
connect_password_first(world, c, k, row) ==
    IF row = 0
    THEN [Op("connect_to_server") EXCEPT !.notice = "Select a server first."]
    ELSE LET s        == c.servers[row]
             factorio == c.factorio_path
         IN  IF ~exists(world, factorio)
             THEN [Op("connect_to_server") EXCEPT !.row = row, !.name = s.name,
                                     !.notice = "Factorio executable not found."]
             ELSE LET host == s.host
                      port == ToString(s.port)
                      got  == get_server_password(k, s.name)
                      pw   == IF truthy(got) THEN got ELSE ""
                      base == <<"--mp-connect", host \o ":" \o port>>
                      args == IF pw # "" THEN <<factorio, "--password", pw>> \o base
                              ELSE <<factorio>> \o base
                      e    == Popen(world, args)
                  IN  [Op("connect_to_server") EXCEPT
                          !.row = row, !.name = s.name, !.popen = args,
                          !.spawned = (e = ""),
                          !.notice = IF e = "" THEN "Connecting to " \o host \o ":" \o port
                                     ELSE "Launch Failed: " \o e]

connect_to_server(world, c, k, row) ==
    IF row = 0
    THEN [Op("connect_to_server") EXCEPT !.notice = "Select a server first."]
    ELSE LET s        == c.servers[row]
             factorio == c.factorio_path
         IN  IF ~exists(world, factorio)
             THEN [Op("connect_to_server") EXCEPT !.row = row, !.name = s.name,
                                     !.notice = "Factorio executable not found."]
             ELSE LET host == s.host
                      port == ToString(s.port)
                      got  == get_server_password(k, s.name)
                      pw   == IF truthy(got) THEN got ELSE ""
                      base == <<factorio, "--mp-connect", host \o ":" \o port>>
                      args == IF pw # "" THEN base \o <<"--password", pw>> ELSE base
                      e    == Popen(world, args)
                  IN  [Op("connect_to_server") EXCEPT
                          !.row = row, !.name = s.name, !.popen = args,
                          !.spawned = (e = ""),
                          !.notice = IF e = "" THEN "Connecting to " \o host \o ":" \o port
                                     ELSE "Launch Failed: " \o e]

-----------------------------------------------------------------------------
(* The launcher: one action per handler *)

Child(name, kind, mtime) == [name |-> name, kind |-> kind, mtime |-> mtime]

\* nothing installed
World0 == [p \in {"."} |-> "dir"]

\* the first executable candidate and the first saves candidate are not usable
\* (a file without the execute permission, no directory); the second ones are
World1 ==
    [p \in {".", ExeCandidates[1], ExeCandidates[2], SavesCandidates[2]} |->
        IF p = ExeCandidates[1] THEN "file"
        ELSE IF p = ExeCandidates[2] THEN "exec" ELSE "dir"]

Worlds == {World0, World1}

SomeSaves == <<Child("a.zip", "file", 1), Child("c.txt", "file", 2)>>

Init ==
    /\ file \in {NoFile, dumps(DefaultConfig, JsonIndent), [indent |-> 0, toks |-> <<>>]}
    /\ cfg = NoCfg
    /\ cred = <<>>
    /\ fs \in Worlds
    /\ listing = IF fs = World0 THEN <<>> ELSE SomeSaves
    /\ last = Idle

Startup ==
    /\ cfg = NoCfg
    /\ LET r == init_window(fs, file)
       IN  cfg' = r.cfg /\ file' = r.file /\ last' = r.last
    /\ UNCHANGED <<cred, fs, listing>>

OpenSettings ==
    /\ cfg # NoCfg
    /\ \E accepted \in BOOLEAN :
       \E exe \in IF accepted THEN TypedExePaths \cup {cfg.factorio_path} ELSE {cfg.factorio_path},
          saves \in IF accepted THEN TypedSavesDirs \cup {cfg.saves_dir} ELSE {cfg.saves_dir} :
          LET r == open_settings(cfg, file, accepted, get_settings(exe, saves))
          IN  cfg' = r.cfg /\ file' = r.file /\ last' = r.last
    /\ UNCHANGED <<cred, fs, listing>>

AddServer ==
    /\ cfg # NoCfg
    /\ Len(cfg.servers) < MaxServers
    /\ \E accepted \in BOOLEAN :
       \E name \in IF accepted THEN TypedNames ELSE {""}, host \in TypedHosts,
          port \in TypedPorts, user \in TypedUsers,
          password \in IF accepted THEN TypedPasswords ELSE {""} :
          LET r == add_server(cfg, cred, file, accepted,
                              get_data(name, host, port, user, password))
          IN  cfg' = r.cfg /\ cred' = r.cred /\ file' = r.file /\ last' = r.last
    /\ UNCHANGED <<fs, listing>>

EditServer ==
    /\ cfg # NoCfg
    /\ \E row \in 0..Len(cfg.servers), accepted \in BOOLEAN :
       \E name \in IF accepted /\ row # 0 THEN TypedNewNames ELSE {""},
          host \in TypedHosts, port \in TypedPorts, user \in TypedUsers,
          password \in IF accepted /\ row # 0
                       THEN TypedPasswords \cup {prefill(cred, cfg.servers[row])}
                       ELSE {""} :
             LET r == edit_server(cfg, cred, file, row, accepted,
                                  get_data(name, host, port, user, password))
             IN  cfg' = r.cfg /\ cred' = r.cred /\ file' = r.file /\ last' = r.last
    /\ UNCHANGED <<fs, listing>>

RemoveServer ==
    /\ cfg # NoCfg
    /\ \E row \in 0..Len(cfg.servers) :
          LET r == remove_server(cfg, cred, file, row)
          IN  cfg' = r.cfg /\ cred' = r.cred /\ file' = r.file /\ last' = r.last
    /\ UNCHANGED <<fs, listing>>

LaunchNormal ==
    /\ cfg # NoCfg
    /\ last' = launch_normal(fs, cfg)
    /\ UNCHANGED <<file, cfg, cred, fs, listing>>

ContinueLatestSave ==
    /\ cfg # NoCfg
    /\ last' = continue_latest_save(fs, listing, cfg)
    /\ UNCHANGED <<file, cfg, cred, fs, listing>>

ConnectToServer ==
    /\ cfg # NoCfg
    /\ \E row \in 0..Len(cfg.servers) : last' = connect_to_server(fs, cfg, cred, row)
    /\ UNCHANGED <<file, cfg, cred, fs, listing>>

Next ==
    \/ Startup
    \/ OpenSettings
    \/ AddServer
    \/ EditServer
    \/ RemoveServer
    \/ LaunchNormal
    \/ ContinueLatestSave
    \/ ConnectToServer

Spec == Init /\ [][Next]_vars
-----------------------------------------------------------------------------
(* The save finder alone, over every bounded directory *)

FileNames == {"a.zip", "B.ZIP", "c.txt", "d.Save", ".dat"}

Children == {Child(n, k, m) : n \in FileNames, k \in {"file", "dir"}, m \in 0..MaxTime}

\* the listings of at most MaxFiles children; the names in a directory differ
AllListings ==
    {ls \in UNION {[1..n -> Children] : n \in 0..MaxFiles} :
        \A i, j \in DOMAIN ls : i # j => ls[i].name # ls[j].name}

DirArgs == {"", SavesCandidates[1], SavesCandidates[2], ExeCandidates[1]}

InitFind ==
    /\ file = NoFile
    /\ cfg = NoCfg
    /\ cred = <<>>
    /\ fs \in Worlds
    /\ listing \in AllListings
    /\ last = Idle

FindLatestSave ==
    /\ \E d \in DirArgs :
          last' = [Op("find_latest_save") EXCEPT
                      !.arg = d, !.result = find_latest_save(fs, listing, d)]
    /\ UNCHANGED <<file, cfg, cred, fs, listing>>

SpecFind == InitFind /\ [][FindLatestSave]_vars

-----------------------------------------------------------------------------
(* The config store alone, over every bounded state of the file *)

SampleEntries ==
    {[name |-> n, host |-> "h", port |-> p, user |-> "u"] :
        n \in {"A", "B"}, p \in {PortMin, PortMax}}

SampleConfigs ==
    {[factorio_path |-> e, saves_dir |-> d, servers |-> l] :
        e \in {"", ExeCandidates[1]}, d \in {"", SavesCandidates[1]},
        l \in UNION {[1..n -> SampleEntries] : n \in 0..MaxServers}}

\* a layout other than the one save_config writes
OtherIndent == 4

\* a text cut short before its last token
truncated(text) == [text EXCEPT !.toks = SubSeq(text.toks, 1, Len(text.toks) - 1)]

ConfigFiles ==
    {NoFile, [indent |-> 0, toks |-> <<>>]}
    \cup {dumps(c, i) : c \in SampleConfigs, i \in {JsonIndent, OtherIndent}}
    \cup {truncated(dumps(c, JsonIndent)) : c \in SampleConfigs}

InitConfig ==
    /\ file \in ConfigFiles
    /\ cfg = NoCfg
    /\ cred = <<>>
    /\ fs = World0
    /\ listing = <<>>
    /\ last = Idle

LoadConfig ==
    /\ LET r == load_config(file)
       IN  /\ cfg' = r.cfg
           /\ file' = r.file
           /\ last' = [Op("load_config") EXCEPT !.fileWas = stateOf(file),
                          !.escaped = IF r.raised THEN "Exception" ELSE ""]
    /\ UNCHANGED <<cred, fs, listing>>

\* save_config(cfg) of the configuration load_config returned
SaveConfig ==
    /\ cfg # NoCfg
    /\ file' = save_config(file, cfg)
    /\ last' = [Op("save_config") EXCEPT !.fileWas = stateOf(file)]
    /\ UNCHANGED <<cfg, cred, fs, listing>>

NextConfig == LoadConfig \/ SaveConfig

SpecConfig == InitConfig /\ [][NextConfig]_vars

-----------------------------------------------------------------------------
(* Claims *)

hasSaveExt(f) == f.kind = "file" /\ lower(suffix(f.name)) \in SaveExts

\* C1: find_latest_save(directory) is absent when the directory string is empty,
\* names nothing, names no directory or holds no regular file with an allow-listed
\* extension; otherwise it is the path of an allow-listed regular file whose
\* modification time is at least that of every other allow-listed regular file.
C1_Reference ==
    last.op = "find_latest_save" =>
        LET d     == last.arg
            ls    == iterdir(fs, listing, d)
            cands == {i \in DOMAIN ls : hasSaveExt(ls[i])}
        IN  IF d = "" \/ ~exists(fs, d) \/ ~is_dir(fs, d) \/ cands = {}
            THEN last.result = None
            ELSE \E i \in cands :
                    /\ last.result = join(d, ls[i].name)
                    /\ \A j \in cands : ls[i].mtime >= ls[j].mtime

\* C2: after add_server is accepted with name X and password p, the credential
\* looked up for X is p; after remove_server removes an entry named X, the
\* credential looked up for X is absent, whatever else the list holds.
C2_AddThenRemove ==
    /\ (last.op = "add_server" /\ last.accepted /\ last.name # "")
          => get_server_password(cred, last.name) = last.pw
    /\ (last.op = "remove_server" /\ last.row # 0)
          => get_server_password(cred, last.name) = None

C2_Witness ==
    /\ last.op = "remove_server" /\ last.row # 0
    /\ Len(cfg.servers) >= 1
    /\ get_server_password(cred, last.name) = None

EntryFields == {"name", "host", "port", "user"}

\* the str tokens of a text that are values, not keys
valuesIn(text) ==
    {text.toks[i].v : i \in {j \in DOMAIN text.toks :
        /\ text.toks[j].t = "str"
        /\ (j = Len(text.toks) \/ text.toks[j + 1] # P(":"))}}

\* C3: no server entry of the in-memory configuration or of the persisted document
\* carries a password field: each has exactly the fields name, host, port, user,
\* and no password typed into a dialog is a value of the persisted document.
C3_NoPasswordField ==
    cfg # NoCfg =>
        /\ \A i \in DOMAIN cfg.servers : DOMAIN cfg.servers[i] = EntryFields
        /\ loads(file).ok
        /\ \A i \in DOMAIN loads(file).val.servers :
              DOMAIN loads(file).val.servers[i] = EntryFields
        /\ valuesIn(file) \cap (TypedPasswords \ {""}) = {}

C3_Witness ==
    /\ last.op = "edit_server" /\ last.accepted /\ last.pw = "p"
    /\ get_server_password(cred, last.name) = "p"
    /\ Len(cfg.servers) = MaxServers

\* C4: when the configuration file exists and is not parsable JSON, load_config
\* returns the default configuration without raising and leaves the file as it was.
C4_UnparsableLoad ==
    [][(last'.op = "load_config" /\ stateOf(file) = "unparsable")
          => /\ cfg' = [factorio_path |-> "", saves_dir |-> "", servers |-> <<>>]
             /\ last'.escaped = ""
             /\ file' = file]_vars

C4_Witness ==
    /\ last.op = "load_config" /\ last.fileWas = "unparsable"
    /\ stateOf(file) = "unparsable"
    /\ Len(file.toks) > 0

\* C5: when no configuration file exists, load_config creates it holding the default
\* document and returns that default; when a file exists, load_config leaves it alone.
C5_AbsentLoad ==
    [][last'.op = "load_config"
          => IF file = NoFile
             THEN /\ file' # NoFile
                  /\ loads(file').ok
                  /\ loads(file').val = [factorio_path |-> "", saves_dir |-> "",
                                         servers |-> <<>>]
                  /\ cfg' = loads(file').val
             ELSE file' = file]_vars

C5_Witness ==
    /\ last.op = "load_config" /\ last.fileWas = "absent"
    /\ file # NoFile

\* two states of the file hold the same content: the same text, or the same document
sameContent(a, b) ==
    \/ a = b
    \/ /\ a # NoFile /\ b # NoFile
       /\ loads(a).ok /\ loads(b).ok
       /\ loads(a).val = loads(b).val

\* C6 as stated: for every state of the file (absent, valid, unparsable),
\* save_config(load_config()) leaves the content of the file as it was when
\* load_config returned.
C6_RoundTrip ==
    [][(last.op = "load_config" /\ last'.op = "save_config")
          => sameContent(file', file)]_vars

\* C6 as amended: for an absent file or a valid document, save_config(load_config())
\* leaves the document as it was when load_config returned, and the text itself when
\* it was laid out as save_config lays it out; for unparsable content the save
\* replaces the text by the default document; a save that follows a save, and a load
\* that follows a save, change nothing.
C6_RoundTripValid ==
    [][/\ (last.op = "load_config" /\ last'.op = "save_config")
             => IF last.fileWas = "unparsable"
                THEN /\ loads(file').ok
                     /\ loads(file').val = [factorio_path |-> "", saves_dir |-> "",
                                            servers |-> <<>>]
                ELSE /\ sameContent(file', file)
                     /\ file.indent = JsonIndent => file' = file
       /\ (last.op = "save_config" /\ last'.op \in {"load_config", "save_config"})
             => file' = file]_vars

C6_Witness ==
    /\ last.op = "save_config" /\ last.fileWas = "valid"
    /\ Len(cfg.servers) = MaxServers
    /\ loads(file).val = cfg

\* the argument list of a connect without a password
connectBase(c, row) ==
    <<c.factorio_path, "--mp-connect",
      c.servers[row].host \o ":" \o ToString(c.servers[row].port)>>

\* C7 as stated: connect_to_server passes [executable, --mp-connect, host:port] when
\* the credential store holds no secret for the server's name, and the same list
\* followed by [--password, secret] when it holds one.
C7_ConnectArgs ==
    (last.op = "connect_to_server" /\ last.row # 0 /\ exists(fs, cfg.factorio_path))
        => LET secret == get_server_password(cred, cfg.servers[last.row].name)
           IN  last.popen = IF secret = None THEN connectBase(cfg, last.row)
                            ELSE connectBase(cfg, last.row) \o <<"--password", secret>>

\* C7 as amended: connect_to_server passes [executable, --mp-connect, host:port] when
\* the credential store holds no secret or an empty secret for the server's name, and
\* the same list followed by [--password, secret] when it holds a non-empty secret;
\* with an executable file the child is spawned.
C7_ConnectArgsNonEmpty ==
    (last.op = "connect_to_server" /\ last.row # 0 /\ exists(fs, cfg.factorio_path))
        => LET secret == get_server_password(cred, cfg.servers[last.row].name)
           IN  /\ last.popen = IF secret \in {None, ""} THEN connectBase(cfg, last.row)
                               ELSE connectBase(cfg, last.row) \o <<"--password", secret>>
               /\ is_executable_file(fs, cfg.factorio_path) => last.spawned

C7_Witness ==
    /\ last.op = "connect_to_server" /\ last.spawned
    /\ Len(last.popen) = 5
    /\ last.popen[4] = "--password" /\ last.popen[5] = "p"

\* the path string names something that exists
refersToExisting(world, p) == p # "" /\ p \in DOMAIN world /\ world[p] # "absent"

\* C8: launch_normal with an executable path that does not reference an existing
\* file reports that the executable was not found and spawns nothing; the
\* configuration and the credential store are unchanged.
C8_PathNotFound ==
    [][(last'.op = "launch_normal" /\ ~refersToExisting(fs, cfg.factorio_path))
          => /\ last'.notice = "Factorio executable not found."
             /\ last'.popen = <<>> /\ ~last'.spawned /\ last'.escaped = ""
             /\ cfg' = cfg /\ cred' = cred /\ file' = file]_vars

\* C9: in launch_normal, continue_latest_save and connect_to_server every failure
\* ends with a notice to the user and no error escaping the handler.
C9_NoFailureFatal ==
    (last.op \in {"launch_normal", "continue_latest_save", "connect_to_server"}
     /\ ~last.spawned)
        => last.notice # "" /\ last.escaped = ""

\* C10: the credential store holds a secret only under names of entries of the
\* server list; a secret is created or overwritten only by add_server or by
\* edit_server with a non-empty password, and deleted only by the removal of an
\* entry of its name.
C10_Lifecycle ==
    [][/\ cfg' # NoCfg =>
             \A k \in DOMAIN cred' :
                \E i \in DOMAIN cfg'.servers : serviceOf(cfg'.servers[i].name) = k
       /\ \A k \in DOMAIN cred' :
             (k \notin DOMAIN cred \/ cred'[k] # cred[k]) =>
                /\ last'.op \in {"add_server", "edit_server"}
                /\ last'.accepted
                /\ k = serviceOf(last'.name)
                /\ last'.op = "edit_server" => last'.pw # ""
       /\ \A k \in DOMAIN cred \ DOMAIN cred' :
             last'.op = "remove_server" /\ k = serviceOf(last'.name)]_vars

=============================================================================
